---------------------------- MODULE Spec2Model ----------------------------
(***************************************************************************)
(* Model of connectivity_from_structure.py: boundary reflections of cation *)
(* sites (checkReflections), the cation polyhedra of a structure           *)
(* (getAllCationPolyhedralWReflections), the shared peripheral ions of two *)
(* polyhedra (Polyhedra.get_connectivity) and the per-species connectivity *)
(* counts (count_connectivity).                                            *)
(*                                                                         *)
(* Numbers.  Fractional coordinates and the margin are fixed-point values  *)
(* in hundredths (1.0 is One = 100).  Lengths are measured in hundredths   *)
(* of the edge of a cubic cell; a distance d is carried as its square d*d, *)
(* so that the comparison d < radius of the source is d*d < radius*radius  *)
(* (radius >= 0).  Bond weights are fixed-point values in millionths.      *)
(***************************************************************************)
EXTENDS Integers, Sequences, FiniteSets, TLC

VARIABLES
    pc,             \* which call is running / has returned
    site,           \* checkReflections: argument site
    margin,         \* checkReflections / builder: argument margin
    reflections,    \* checkReflections: returned list
    poly1,          \* get_connectivity: self
    poly2,          \* get_connectivity: polyhedra2
    conn12,         \* poly1.get_connectivity(poly2)
    conn21,         \* poly2.get_connectivity(poly1)
    structure,      \* builder: argument structure (its list of sites)
    radius,         \* builder: argument radius
    bondWeight,     \* the bond weight function in use (external)
    polyhedralList, \* builder: returned list
    polyhedraList,  \* count_connectivity: the list it scans
    connections     \* count_connectivity: returned dict

vars == <<pc, site, margin, reflections, poly1, poly2, conn12, conn21,
          structure, radius, bondWeight, polyhedralList, polyhedraList,
          connections>>

-----------------------------------------------------------------------------
(* Sites *)

\* 1.0 in hundredths
One == 100

anions == {"O2-", "O", "F-", "F", "Cl-", "Cl", "I-", "I", "Br-", "Br", "S2-", "S"}

PeriodicSite(species_string, frac_coords, lattice) ==
    [species_string |-> species_string, frac_coords |-> frac_coords, lattice |-> lattice]

\* numpy addition of a translation to fractional coordinates
FracAdd(f, t) == <<f[1] + t[1], f[2] + t[2], f[3] + t[3]>>

-----------------------------------------------------------------------------
(* checkReflections *)

\* the two tests of one axis, in the order of the source: the high-boundary
\* test comes second and overrides the low-boundary one
axisSignSwapped(c, m) ==
    LET lo == IF c >= 0 /\ c <= m THEN -1 ELSE 0
    IN  IF c <= One /\ c >= One - m THEN 1 ELSE lo

axisSign(c, m) ==
    LET lo == IF c >= 0 /\ c <= m THEN 1 ELSE 0
    IN  IF c <= One /\ c >= One - m THEN -1 ELSE lo

reflected(s, t) ==
    PeriodicSite(s.species_string, FracAdd(s.frac_coords, t), s.lattice)

appendReflectionsNoTriple(s, x, y, z) ==
    (IF x # 0
     THEN <<reflected(s, <<x * One, 0, 0>>)>>
          \o (IF y # 0 THEN <<reflected(s, <<x * One, y * One, 0>>)>> ELSE <<>>)
          \o (IF z # 0 THEN <<reflected(s, <<x * One, 0, z * One>>)>> ELSE <<>>)
     ELSE <<>>)
    \o (IF y # 0
        THEN <<reflected(s, <<0, y * One, 0>>)>>
             \o (IF z # 0 THEN <<reflected(s, <<0, y * One, z * One>>)>> ELSE <<>>)
        ELSE <<>>)
    \o (IF z # 0 THEN <<reflected(s, <<0, 0, z * One>>)>> ELSE <<>>)

appendReflections(s, x, y, z) ==
    (IF x # 0
     THEN <<reflected(s, <<x * One, 0, 0>>)>>
          \o (IF y # 0
              THEN <<reflected(s, <<x * One, y * One, 0>>)>>
                   \o (IF z # 0
                       THEN <<reflected(s, <<x * One, y * One, z * One>>)>>
                       ELSE <<>>)
              ELSE <<>>)
          \o (IF z # 0 THEN <<reflected(s, <<x * One, 0, z * One>>)>> ELSE <<>>)
     ELSE <<>>)
    \o (IF y # 0
        THEN <<reflected(s, <<0, y * One, 0>>)>>
             \o (IF z # 0 THEN <<reflected(s, <<0, y * One, z * One>>)>> ELSE <<>>)
        ELSE <<>>)
    \o (IF z # 0 THEN <<reflected(s, <<0, 0, z * One>>)>> ELSE <<>>)

checkReflections(s, m) ==
    appendReflections(s,
                      axisSign(s.frac_coords[1], m),
                      axisSign(s.frac_coords[2], m),
                      axisSign(s.frac_coords[3], m))

-----------------------------------------------------------------------------
(* Polyhedra.get_connectivity *)

Polyhedra(cation, peripheralIons) ==
    [center |-> cation, peripheralIons |-> peripheralIons]

\* the inner loop with its break: does site1 match some entry of the list
matchesAny(site1, others) ==
    \E k \in 1..Len(others) : site1[1] = others[k][1]

countMatches(ions, others) ==
    Cardinality({k \in 1..Len(ions) : matchesAny(ions[k], others)})

get_connectivityNoGuard(p, q) ==
    countMatches(p.peripheralIons, q.peripheralIons)

get_connectivity(p, q) ==
    IF p.center = q.center
    THEN -1
    ELSE countMatches(p.peripheralIons, q.peripheralIons)


-----------------------------------------------------------------------------
(* count_connectivity *)

get_central_name(p) == p.center.species_string

\* connections[cation][k] += 1; the list [c0, c1, c2, c3] of the source is
\* the tuple <<c0, c1, c2, c3>>, so index k of the source is position k + 1
increment(counts, k) == [counts EXCEPT ![k + 1] = @ + 1]

\* the body of the inner loop with the tests chained as elif, so that the
\* face test is skipped
scanPairNoFace(acc, connection) ==
    IF connection < 0
    THEN acc
    ELSE IF connection = 1
    THEN [counts |-> increment(acc.counts, 1), connected |-> TRUE]
    ELSE IF connection >= 2
    THEN [counts |-> increment(acc.counts, 2), connected |-> TRUE]
    ELSE acc

\* the body of the inner loop with connected set only by the point test
scanPairPointOnly(acc, connection) ==
    IF connection < 0
    THEN acc
    ELSE [counts |-> IF connection = 1 THEN increment(acc.counts, 1)
                     ELSE IF connection = 2 THEN increment(acc.counts, 2)
                     ELSE IF connection >= 3 THEN increment(acc.counts, 3)
                     ELSE acc.counts,
          connected |-> acc.connected \/ connection = 1]

\* the body of the inner loop for one polyhedra2: the three tests in turn
scanPair(acc, connection) ==
    IF connection < 0
    THEN acc
    ELSE LET a1 == IF connection = 1
                   THEN [counts |-> increment(acc.counts, 1), connected |-> TRUE]
                   ELSE acc
             a2 == IF connection = 2
                   THEN [counts |-> increment(a1.counts, 2), connected |-> TRUE]
                   ELSE a1
         IN  IF connection >= 3
             THEN [counts |-> increment(a2.counts, 3), connected |-> TRUE]
             ELSE a2

\* the inner loop over polyhedraList from position j on; the call
\* polyhedra1.get_connection(polyhedra2) is read as get_connectivity, the
\* shared-count method of Polyhedra
RECURSIVE scanList(_, _, _, _)
scanList(polyhedra1, list, j, acc) ==
    IF j > Len(list)
    THEN acc
    ELSE scanList(polyhedra1, list, j + 1,
                  scanPair(acc, get_connectivity(polyhedra1, list[j])))

\* after the inner loop: the isolated bucket
closePolyhedra(acc) ==
    IF acc.connected = FALSE THEN increment(acc.counts, 0) ELSE acc.counts

\* the outer loop over polyhedraList from position i on
RECURSIVE countLoop(_, _, _)
countLoop(list, i, conns) ==
    IF i > Len(list)
    THEN conns
    ELSE LET cation == get_central_name(list[i])
             conns1 == IF cation \notin DOMAIN conns
                       THEN conns @@ (cation :> <<0, 0, 0, 0>>)
                       ELSE conns
             acc    == scanList(list[i], list, 1,
                                [counts |-> conns1[cation], connected |-> FALSE])
         IN  countLoop(list, i + 1,
                       [conns1 EXCEPT ![cation] = closePolyhedra(acc)])

EmptyDict == [cation \in {} |-> <<0, 0, 0, 0>>]

count_connectivity(list) == countLoop(list, 1, EmptyDict)

-----------------------------------------------------------------------------
(* Structure: sites of a cubic cell and the periodic neighbor search *)

\* Structure(lattice, species, frac_coords): one site per (species, coords)
Structure(lattice, species, fraccoords) ==
    [k \in 1..Len(species) |-> PeriodicSite(species[k], fraccoords[k], lattice)]

\* cell translations looked at along one axis; with coordinates between -1
\* and 2 and a radius below one cell edge no other image is in reach
Images == <<-3, -2, -1, 0, 1, 2, 3>>

Square(n) == n * n

Dist2(f, g) == Square(f[1] - g[1]) + Square(f[2] - g[2]) + Square(f[3] - g[3])

\* the translations o of coordinate t that bring it within r of c
AxisImages(c, t, r) ==
    SelectSeq(Images, LAMBDA o : Square(t + o * One - c) <= Square(r))

RECURSIVE Flatten(_)
Flatten(ss) == IF ss = <<>> THEN <<>> ELSE Head(ss) \o Flatten(Tail(ss))

\* the periodic images of site t within r of the point f, nearest cell first
\* along x, then y, then z, each with its (squared) distance
ImagesInSphere(t, f, r) ==
    LET ox == AxisImages(f[1], t.frac_coords[1], r)
        oy == AxisImages(f[2], t.frac_coords[2], r)
        oz == AxisImages(f[3], t.frac_coords[3], r)
        all == Flatten([a \in 1..Len(ox) |->
                   Flatten([b \in 1..Len(oy) |->
                       [c \in 1..Len(oz) |->
                           reflected(t, <<ox[a] * One, oy[b] * One, oz[c] * One>>)]])])
        near == SelectSeq(all, LAMBDA u : Dist2(u.frac_coords, f) <= Square(r))
    IN  [k \in 1..Len(near) |-> <<near[k], Dist2(near[k].frac_coords, f)>>]

\* structure.get_neighbors(site, r): all periodic sites within r of the site,
\* the site itself left out, as (site, distance) pairs
get_neighbors(struct, s, r) ==
    LET found == Flatten([k \in 1..Len(struct) |->
                            ImagesInSphere(struct[k], s.frac_coords, r)])
    IN  SelectSeq(found, LAMBDA e : e[1] # s)

-----------------------------------------------------------------------------
(* calculate_bond_weight (module effective_coordination) *)

\* 1.0 as a bond weight, in millionths
FullWeight == 1000000

RECURSIVE SeqMin(_)
SeqMin(ds) ==
    IF Len(ds) = 1 THEN ds[1]
    ELSE LET m == SeqMin(Tail(ds)) IN IF ds[1] < m THEN ds[1] ELSE m

\* the weight of a bond of length d among the bond lengths of the site: the
\* function in use gives bondWeight[1], its largest weight, to the shortest
\* bonds of the site and bondWeight[2] to the longer ones
calculate_bond_weight(d, bondlengths) ==
    IF d = SeqMin(bondlengths) THEN bondWeight[1] ELSE bondWeight[2]

-----------------------------------------------------------------------------
(* getAllCationPolyhedralWReflections *)

\* the species test of the first loop turned round
cationSitesAnions(struct) ==
    SelectSeq(struct, LAMBDA s : s.species_string \in anions)

cationSitesOf(struct) ==
    SelectSeq(struct, LAMBDA s : ~(s.species_string \in anions))

\* reflections = reflections + checkReflections(site, margin), site by site
allReflections(cations, m) ==
    Flatten([k \in 1..Len(cations) |-> checkReflections(cations[k], m)])

\* the structure the neighbor search runs on: with reflections, the sites
\* of the argument followed by the reflections, rebuilt on its lattice
searchStructure(struct, refl) ==
    IF Len(refl) > 0
    THEN LET all == struct \o refl
         IN  Structure(struct[1].lattice,
                       [k \in 1..Len(all) |-> all[k].species_string],
                       [k \in 1..Len(all) |-> all[k].frac_coords])
    ELSE struct

\* the neighbor test with <= for <
qualifiesInclusive(entry, r) ==
    entry[1].species_string \in anions /\ entry[2] <= Square(r)

\* entry[0].species_string in anions and entry[1] < radius
qualifies(entry, r) ==
    entry[1].species_string \in anions /\ entry[2] < Square(r)

anionSitesOf(struct, s, r) ==
    SelectSeq(get_neighbors(struct, s, r), LAMBDA e : qualifies(e, r))

lengthsOf(entries) == [k \in 1..Len(entries) |-> entries[k][2]]

\* the weight a bond is appended with, or -1 when it is not appended
appendedWeight(s, bond, bondlengths) ==
    IF s.species_string = "Rn"
    THEN FullWeight
    ELSE IF calculate_bond_weight(bond[2], bondlengths) > 0
         THEN calculate_bond_weight(bond[2], bondlengths)
         ELSE -1

RECURSIVE SeqSum(_)
SeqSum(ws) == IF ws = <<>> THEN 0 ELSE Head(ws) + SeqSum(Tail(ws))

\* round() of a non-negative weight sum, to a whole number
round(w) == (w + FullWeight \div 2) \div FullWeight

\* one entry of polyhedralList: [sites, round(sum(bondweights))], sites being
\* the central site followed by the appended bonds
polyhedralOf(struct, s, r) ==
    LET anionSites  == anionSitesOf(struct, s, r)
        bondlengths == lengthsOf(anionSites)
        kept        == SelectSeq(anionSites,
                           LAMBDA b : appendedWeight(s, b, bondlengths) >= 0)
        bondweights == [k \in 1..Len(kept) |->
                           appendedWeight(s, kept[k], bondlengths)]
    IN  <<(<<s>> \o kept), round(SeqSum(bondweights))>>

\* cationSites after the reflections were appended to it
centerSites(struct, m) ==
    LET cations == cationSitesOf(struct)
    IN  cations \o allReflections(cations, m)

getAllCationPolyhedralWReflections(struct, m, r) ==
    LET cations == cationSitesOf(struct)
        refl    == allReflections(cations, m)
        search  == searchStructure(struct, refl)
        centers == centerSites(struct, m)
    IN  [k \in 1..Len(centers) |-> polyhedralOf(search, centers[k], r)]

\* an entry of polyhedralList seen as the Polyhedra it describes
AsPolyhedra(entry) == Polyhedra(Head(entry[1]), Tail(entry[1]))

-----------------------------------------------------------------------------
(* Inputs *)

Lattices == {"cubicA", "cubicB"}

NoSite == PeriodicSite("", <<0, 0, 0>>, "")

NoPolyhedra == Polyhedra(NoSite, <<>>)

\* coordinates tried for checkReflections: outside the cell, on its faces,
\* inside each margin, on the edge of the default margin, and interior
ReflectCoords == {-3, 0, 2, 5, 50, 95, 98, 100}

\* the default margin 0.05, no margin, and two margins of at least 0.5
Margins == {0, 5, 50, 60}

ReflectSites ==
    {PeriodicSite(sp, <<x, y, z>>, l) :
        sp \in {"Li", "O"}, x \in ReflectCoords, y \in ReflectCoords,
        z \in ReflectCoords, l \in Lattices}

\* longest peripheral-ion list tried for get_connectivity
MaxPeriph == 3

SiteLi1 == PeriodicSite("Li", <<2, 50, 50>>, "cubicA")

SiteLi2 == PeriodicSite("Li", <<50, 50, 50>>, "cubicA")

SiteCo3 == PeriodicSite("Co", <<50, 98, 50>>, "cubicA")

SiteO1 == PeriodicSite("O", <<26, 50, 50>>, "cubicA")

SiteO2 == PeriodicSite("O", <<26, 74, 50>>, "cubicA")

SiteO3 == PeriodicSite("O", <<26, 50, 74>>, "cubicA")

\* (site, distance) entries; the first two are the same site at two distances
ConnEntries == {<<SiteO1, 576>>, <<SiteO1, 600>>, <<SiteO2, 576>>}

SeqsUpTo(S, n) == UNION {[1..k -> S] : k \in 0..n}

ConnPolyhedra ==
    {Polyhedra(c, ions) : c \in {SiteLi1, SiteLi2}, ions \in SeqsUpTo(ConnEntries, MaxPeriph)}

\* longest polyhedra list tried for count_connectivity
MaxPolys == 3

SiteO4 == PeriodicSite("O", <<74, 50, 50>>, "cubicA")

\* peripheral-ion lists sharing 0, 1, 2 or 3 ions with each other
CountIons ==
    {<<>>,
     <<<<SiteO1, 576>>, <<SiteO2, 1152>>, <<SiteO3, 1152>>, <<SiteO4, 576>>>>,
     <<<<SiteO1, 576>>, <<SiteO2, 1152>>, <<SiteO3, 1152>>>>,
     <<<<SiteO3, 1152>>, <<SiteO4, 576>>>>,
     <<<<SiteO4, 576>>>>}

CountPolyhedra ==
    {Polyhedra(c, ions) : c \in {SiteLi1, SiteLi2, SiteCo3}, ions \in CountIons}

\* most sites of a structure tried for the builder
MaxSites == 3

\* where the k-th site of a structure may sit: a corner of the cell (near
\* x = 0 and y = 1), an interior position, a position near y = 1 only, ...
BuildPositions ==
    <<(<<2, 98, 50>>), (<<26, 90, 50>>), (<<50, 98, 50>>), (<<26, 50, 50>>), (<<50, 50, 50>>)>>

\* ... or the corner again, on top of the first site
PositionsOf(k) == {BuildPositions[k], BuildPositions[1]}

\* a cation, the probe species of the builder, and an anion
BuildSpecies == {"Li", "Rn", "O"}

BuildStructures ==
    UNION {{st \in [1..n -> {PeriodicSite(sp, f, "cubicA") :
                                sp \in BuildSpecies, f \in UNION {PositionsOf(k) : k \in 1..n}}] :
               \A k \in 1..n : st[k].frac_coords \in PositionsOf(k)} : n \in 0..MaxSites}

\* no radius, and the default radius 3.0 in a cell of edge 4.0
Radii == {0, 75}

\* no margin and the default margin 0.05
BuildMargins == {0, 5}

\* bond weight functions: 1.0 for the shortest bonds of a site and, for the
\* longer ones, 0, 5e-6, 1e-5, 1.1e-5 or 1.0
WeightTables ==
    {w \in [1..2 -> {0, 5, 10, 11, FullWeight}] : w[1] = FullWeight}

-----------------------------------------------------------------------------
(* Specification of a call of checkReflections *)

IdleReflect == site = NoSite /\ reflections = <<>>

IdleConn == poly1 = NoPolyhedra /\ poly2 = NoPolyhedra /\ conn12 = 0 /\ conn21 = 0

IdleBuild == structure = <<>> /\ radius = 0 /\ bondWeight = <<>> /\ polyhedralList = <<>>

IdleCount == polyhedraList = <<>> /\ connections = EmptyDict

InitReflect ==
    /\ pc = "checkReflections"
    /\ site \in ReflectSites
    /\ margin \in Margins
    /\ reflections = <<>>
    /\ IdleConn /\ IdleBuild /\ IdleCount

CallCheckReflections ==
    /\ pc = "checkReflections"
    /\ reflections' = checkReflections(site, margin)
    /\ pc' = "reflected"
    /\ UNCHANGED <<site, margin, poly1, poly2, conn12, conn21, structure, radius,
                   bondWeight, polyhedralList, polyhedraList, connections>>

NextReflect == CallCheckReflections

SpecReflect == InitReflect /\ [][NextReflect]_vars

-----------------------------------------------------------------------------
(* Specification of a call of get_connectivity in both directions *)

InitConn ==
    /\ pc = "get_connectivity"
    /\ poly1 \in ConnPolyhedra
    /\ poly2 \in ConnPolyhedra
    /\ conn12 = 0 /\ conn21 = 0
    /\ margin = 0
    /\ IdleReflect /\ IdleBuild /\ IdleCount

CallGetConnectivity ==
    /\ pc = "get_connectivity"
    /\ conn12' = get_connectivity(poly1, poly2)
    /\ conn21' = get_connectivity(poly2, poly1)
    /\ pc' = "compared"
    /\ UNCHANGED <<site, margin, reflections, poly1, poly2, structure, radius,
                   bondWeight, polyhedralList, polyhedraList, connections>>

NextConn == CallGetConnectivity

SpecConn == InitConn /\ [][NextConn]_vars

-----------------------------------------------------------------------------
(* Claims about get_connectivity *)

\* C1: for two polyhedra with different centers the shared-ion count is the
\* same in both directions, whatever the two peripheral-ion lists hold.
C1_Symmetric ==
    (pc = "compared" /\ poly1.center # poly2.center) => conn12 = conn21

\* C2: a polyhedron compared with itself (same center) gives -1 whatever its
\* peripheral ions are, and a result >= 0 is returned only when the two
\* centers are not the same site.
C2_SelfIsMinusOne ==
    pc = "compared" =>
        /\ (poly1.center = poly2.center => conn12 = -1 /\ conn21 = -1)
        /\ (conn12 >= 0 => poly1.center # poly2.center)
        /\ conn12 >= -1

C2_Witness ==
    /\ pc = "compared"
    /\ poly1 = poly2
    /\ Len(poly1.peripheralIons) = 2
    /\ conn12 = -1

-----------------------------------------------------------------------------
(* Claims about checkReflections *)

nearLow(c, m) == c >= 0 /\ c <= m

nearHigh(c, m) == c <= One /\ c >= One - m

\* the axes of the argument site that lie within the margin of a boundary
NearAxes == {a \in 1..3 : nearLow(site.frac_coords[a], margin)
                          \/ nearHigh(site.frac_coords[a], margin)}

\* translation of the k-th returned copy, and the axes it moves
Translation(k) ==
    [a \in 1..3 |-> reflections[k].frac_coords[a] - site.frac_coords[a]]

Support(k) == {a \in 1..3 : Translation(k)[a] # 0}

Pow2(n) == IF n = 0 THEN 1 ELSE IF n = 1 THEN 2 ELSE IF n = 2 THEN 4 ELSE 8

\* C5: for a margin below 0.5 the returned copies are exactly one per
\* non-empty subset of the near-boundary axes: 2^k - 1 copies for k such
\* axes, at pairwise different translations, none for an interior site.
C5_OneCopyPerSubset ==
    (pc = "reflected" /\ 2 * margin < One) =>
        /\ Len(reflections) = Pow2(Cardinality(NearAxes)) - 1
        /\ \A S \in (SUBSET NearAxes) \ {{}} :
              Cardinality({k \in 1..Len(reflections) : Support(k) = S}) = 1
        /\ \A k \in 1..Len(reflections) :
              Support(k) # {} /\ Support(k) \subseteq NearAxes
        /\ \A k, l \in 1..Len(reflections) :
              k # l => Translation(k) # Translation(l)
        /\ (NearAxes = {} => reflections = <<>>)

C5_Witness ==
    /\ pc = "reflected"
    /\ margin = 5
    /\ Cardinality(NearAxes) = 3
    /\ Len(reflections) = 7

\* C6: every returned copy has the species string and the lattice of the
\* argument and its coordinates moved by a whole unit on at least one axis:
\* by +1 only on an axis whose coordinate lies in [0, margin], by -1 only on
\* an axis whose coordinate lies in [1 - margin, 1].  With margin 0.05 the
\* site (0.02, 0.5, 0.5) gives the single copy (1.02, 0.5, 0.5) and the site
\* (0.02, 0.98, 0.5) gives 3 copies.
C6_CopiesAreUnitTranslations ==
    pc = "reflected" =>
        /\ \A k \in 1..Len(reflections) :
              /\ reflections[k].species_string = site.species_string
              /\ reflections[k].lattice = site.lattice
              /\ Support(k) # {}
              /\ \A a \in 1..3 :
                    /\ Translation(k)[a] \in {0, One, -One}
                    /\ Translation(k)[a] = One => nearLow(site.frac_coords[a], margin)
                    /\ Translation(k)[a] = -One => nearHigh(site.frac_coords[a], margin)
        /\ (margin = 5 /\ site.frac_coords = <<2, 50, 50>>) =>
              /\ Len(reflections) = 1
              /\ reflections[1].frac_coords = <<102, 50, 50>>
        /\ (margin = 5 /\ site.frac_coords = <<2, 98, 50>>) =>
              /\ Len(reflections) = 3
              /\ {reflections[k].frac_coords : k \in 1..3} =
                    {<<102, 98, 50>>, <<2, -2, 50>>, <<102, -2, 50>>}

C6_Witness ==
    /\ pc = "reflected"
    /\ margin = 5
    /\ site.frac_coords = <<2, 98, 50>>
    /\ site.lattice = "cubicB"
    /\ Len(reflections) = 3

\* C8: a margin of 0.5 or more is rejected: the call returns no reflected
\* site for it.
C8_InvalidMarginRejected ==
    (pc = "reflected" /\ 2 * margin >= One) => reflections = <<>>

-----------------------------------------------------------------------------
(* Specification of the scan of count_connectivity over a polyhedra list *)

InitCount ==
    /\ pc = "count_connectivity"
    /\ polyhedraList \in SeqsUpTo(CountPolyhedra, MaxPolys)
    /\ connections = EmptyDict
    /\ margin = 0
    /\ IdleReflect /\ IdleConn /\ IdleBuild

ScanPolyhedra ==
    /\ pc = "count_connectivity"
    /\ connections' = count_connectivity(polyhedraList)
    /\ pc' = "counted"
    /\ UNCHANGED <<site, margin, reflections, poly1, poly2, conn12, conn21,
                   structure, radius, bondWeight, polyhedralList, polyhedraList>>

NextCount == ScanPolyhedra

SpecCount == InitCount /\ [][NextCount]_vars

-----------------------------------------------------------------------------
(* Claims about count_connectivity *)

Positions == 1..Len(polyhedraList)

speciesAt(i) == polyhedraList[i].center.species_string

sharedCount(i, j) == get_connectivity(polyhedraList[i], polyhedraList[j])

\* the ordered pairs (p, q), p of species sp, sharing 1, 2, 3 or more, and
\* at least one ion
PointPairs(sp) ==
    {<<i, j>> \in Positions \X Positions : speciesAt(i) = sp /\ sharedCount(i, j) = 1}

EdgePairs(sp) ==
    {<<i, j>> \in Positions \X Positions : speciesAt(i) = sp /\ sharedCount(i, j) = 2}

FacePairs(sp) ==
    {<<i, j>> \in Positions \X Positions : speciesAt(i) = sp /\ sharedCount(i, j) >= 3}

ConnectedPairs(sp) ==
    {<<i, j>> \in Positions \X Positions : speciesAt(i) = sp /\ sharedCount(i, j) >= 1}

-----------------------------------------------------------------------------
(* Specification of the builder followed by the scan of count_connectivity *)

InitBuild ==
    /\ pc = "getAllCationPolyhedralWReflections"
    /\ structure \in BuildStructures
    /\ margin \in BuildMargins
    /\ radius \in Radii
    /\ bondWeight \in WeightTables
    /\ polyhedralList = <<>>
    /\ polyhedraList = <<>>
    /\ connections = EmptyDict
    /\ IdleReflect /\ IdleConn

\* polyhedraList = getAllCationPolyhedralWReflections(structure), here with
\* the margin and radius of the state instead of the defaults
CallBuilder ==
    /\ pc = "getAllCationPolyhedralWReflections"
    /\ polyhedralList' = getAllCationPolyhedralWReflections(structure, margin, radius)
    /\ polyhedraList' = [k \in 1..Len(polyhedralList') |-> AsPolyhedra(polyhedralList'[k])]
    /\ pc' = "count_connectivity"
    /\ UNCHANGED <<site, margin, reflections, poly1, poly2, conn12, conn21,
                   structure, radius, bondWeight, connections>>

NextBuild == CallBuilder \/ ScanPolyhedra

SpecBuild == InitBuild /\ [][NextBuild]_vars

-----------------------------------------------------------------------------
(* Claims about the builder *)

Built == pc \in {"count_connectivity", "counted"} /\ structure # <<>>

\* 1e-5 as a bond weight, in millionths
Epsilon == 10

\* the sites of the argument that are not anions, by position
CationPositions == {k \in 1..Len(structure) : structure[k].species_string \notin anions}

RECURSIVE ReflectionCount(_)
ReflectionCount(K) ==
    IF K = {} THEN 0
    ELSE LET k == CHOOSE x \in K : TRUE
         IN  Len(checkReflections(structure[k], margin)) + ReflectionCount(K \ {k})

\* the sites that get an entry: the non-anion sites in the order of the
\* structure, then their reflected copies
ExpectedCenters ==
    SelectSeq(structure, LAMBDA s : s.species_string \notin anions)
    \o Flatten([k \in 1..Len(structure) |->
                    IF k \in CationPositions
                    THEN checkReflections(structure[k], margin) ELSE <<>>])

\* the structure the neighbors are searched in
Searched ==
    structure \o Flatten([k \in 1..Len(structure) |->
                    IF k \in CationPositions
                    THEN checkReflections(structure[k], margin) ELSE <<>>])

\* the anion neighbors of the k-th entry's center that are nearer than radius
Qualified(k) ==
    SelectSeq(get_neighbors(Searched, polyhedralList[k][1][1], radius),
              LAMBDA e : e[1].species_string \in anions /\ e[2] < Square(radius))

\* C7: for a cation other than the probe, a distance-qualified anion
\* neighbor is a peripheral ion exactly when its bond weight is above 1e-5.
C7_WeightAboveEpsilon ==
    Built =>
        \A k \in 1..Len(polyhedralList) :
            polyhedralList[k][1][1].species_string # "Rn" =>
                Tail(polyhedralList[k][1]) =
                    SelectSeq(Qualified(k),
                              LAMBDA e : calculate_bond_weight(e[2], lengthsOf(Qualified(k)))
                                            > Epsilon)

\* C9: the builder returns one entry per cation site, reflected copies
\* included: as many entries as there are non-anion sites plus reflected
\* copies of them, each centered on a different one of these sites, and no
\* entry has its center among its peripheral ions.
C9_OnePolyhedronPerCation ==
    Built =>
        /\ Len(polyhedralList) =
              Cardinality(CationPositions) + ReflectionCount(CationPositions)
        /\ \A k \in 1..Len(polyhedralList) :
              /\ polyhedralList[k][1][1].species_string \notin anions
              /\ \A e \in 2..Len(polyhedralList[k][1]) :
                    polyhedralList[k][1][e][1] # polyhedralList[k][1][1]
        /\ [k \in 1..Len(polyhedralList) |-> polyhedralList[k][1][1]] = ExpectedCenters

C9_Witness ==
    /\ Built
    /\ margin = 5
    /\ radius = 75
    /\ Cardinality(CationPositions) = 2
    /\ Len(structure) = 3
    /\ Len(polyhedralList) = 6
    /\ \E k \in 1..Len(polyhedralList) : Len(polyhedralList[k][1]) >= 3

=============================================================================
